---- MODULE Spec2Model ----
(***************************************************************************)
(* A model of the CentralHealth backend: the WebSocket chat and            *)
(* notification fan-out (backend/chat), the hospital tenants and their     *)
(* subdomain middleware (backend/hospitals) and the patient record         *)
(* endpoints (backend/patients).                                           *)
(*                                                                         *)
(* Each handler is one action.  The ORM tables and the document            *)
(* collections that hold the same entity are modelled as one store.        *)
(***************************************************************************)
EXTENDS Integers, Sequences, FiniteSets, TLC

\* ------------------------------------------------------------- bounds

\* Cap on the number of stored chat messages.
MaxMessages == 2

\* Cap on the number of stored notifications in create_notification.
MaxNotifications == 2

\* Cap on the number of hospitals ever created.
MaxHospitals == 2

\* The Flask observation list grows to at most this many entries.
MaxObservations == 4

\* The Flask user store grows to at most this many users.
MaxUsers == 5

\* The appointments list holds at most this many appointments.
MaxAppointments == 2

\* ------------------------------------------------------ users and rooms

\* django.contrib.auth User rows; UnknownUser is an id with no row.
Users == {"u1", "u2", "u3"}
UnknownUser == "u0"
UserIds == Users \cup {UnknownUser}

\* User.is_staff
is_staff(u) == u \in {"u2"}

\* ChatRoom rows; UnknownRoom is an id with no row.
ChatRooms == {"r1", "r2"}
UnknownRoom == "r0"
RoomIds == ChatRooms \cup {UnknownRoom}

\* chat_room.patient.user
patient_user(r) == IF r = "r1" THEN "u1" ELSE "u2"

\* chat_room.hospital_staff.all()
hospital_staff(r) == IF r = "r1" THEN {"u2", "u3"} ELSE {"u3"}

\* Message contents a client may send.
Contents == {"hi"}

\* Open WebSocket connections are identified with their channel names.
ChatConns == {"c1", "c2", "c3"}
NoRoom == "none"

\* Open NotificationConsumer connections, by channel name.
NotifConns == {"n1", "n2"}
NoUser == "none"

\* ChatNotification.NotificationType.NEW_MESSAGE
NEW_MESSAGE == "NM"

VARIABLES
    groups,          \* channel layer: group name -> set of channel names
    connRoom,        \* ChatConsumer.room_id of each connection (NoRoom: socket closed)
    messages,        \* Message store: sequence of rows, id = position
    notifications,   \* ChatNotification store: sequence of rows, id = position
    has_unread_messages, \* ChatRoom.has_unread_messages of each room
    lastReceive,     \* the last ChatConsumer.receive call and what it sent
    notifUser,       \* NotificationConsumer.user_id of each connection (NoUser: closed)
    wsFrames,        \* frames each NotificationConsumer wrote to its WebSocket
    lastNotify,      \* the last create_notification call and the channels it reached
    createPc,        \* position of the MessageViewSet.create request in flight
    viewPc,          \* position of the ChatRoomViewSet.messages request in flight
    markPc,          \* position of the NotificationConsumer.receive call in flight
    hospitals,       \* Hospital store: set of rows
    subscriptions,   \* Subscription store: set of rows
    nextObjectId,    \* the next fresh ObjectId / serial id
    lastRequest,     \* the last request through HospitalSubdomainMiddleware
    appointments,    \* Appointment.status of each appointment
    lastResponse,    \* the last response of a patients viewset action
    fhirPatients,    \* FHIRPatient store: the patients that have a row
    fhirObservations, \* FHIRObservation store: set of rows
    lastFhir,        \* the last response of a FHIR viewset action
    observations,    \* Flask app: the observations list
    lastFlask,       \* Flask app: the last response of an observation endpoint
    users,           \* Flask app: the users dict, email -> user
    registerPc,      \* Flask app: position of each register request in flight
    lastNotifApi,    \* the last response of a ChatNotificationViewSet action
    flask_appointments, \* Flask app: the appointments list
    rolePc           \* Flask app: position of the role-endpoint request in flight

chatVars == <<groups, connRoom, messages, notifications, has_unread_messages,
              lastReceive>>
notifVars == <<notifUser, wsFrames, lastNotify>>
pcVars == <<createPc, viewPc, markPc>>

hospVars == <<hospitals, subscriptions, nextObjectId, lastRequest>>
patVars == <<appointments, lastResponse>>
fhirVars == <<fhirPatients, fhirObservations, lastFhir>>
obsVars == <<observations, lastFlask>>
userVars == <<users, registerPc>>
flaskVars == <<flask_appointments, rolePc>>
restVars == <<fhirVars, obsVars, userVars, lastNotifApi, flaskVars>>
otherVars == <<hospVars, patVars, restVars>>

vars == <<chatVars, notifVars, pcVars, hospVars, patVars, restVars>>

\* ------------------------------------------------------- channel layer

\* One group name for every room.
room_group_name_shared(r) == <<"chat", "all">>

\* f'chat_{self.room_id}'
room_group_name(r) == <<"chat", r>>

\* f'notifications_{self.user_id}'
notification_group_name(u) == <<"notifications", u>>

GroupNames == {room_group_name(r) : r \in RoomIds}
                  \cup {notification_group_name(u) : u \in UserIds}

\* channel_layer.group_add(group, channel)
group_add(g, group, channel) == [g EXCEPT ![group] = @ \cup {channel}]

\* channel_layer.group_discard(group, channel)
group_discard(g, group, channel) == [g EXCEPT ![group] = @ \ {channel}]

\* channel_layer.group_send(group, event): the channels the event reaches
group_send(g, group) == g[group]

\* ------------------------------------------------------- helpers

RECURSIVE SeqOfSet(_)
\* The elements of a finite set in the order a queryset iterates them.
SeqOfSet(S) ==
    IF S = {} THEN <<>>
    ELSE LET x == CHOOSE y \in S : TRUE IN <<x>> \o SeqOfSet(S \ {x})

NoReceive == [conn |-> "none"]

\* ------------------------------------------------------- ChatConsumer

\* ChatConsumer.connect
ChatConnect(c, r) ==
    /\ connRoom[c] = NoRoom
    /\ connRoom' = [connRoom EXCEPT ![c] = r]
    /\ groups' = group_add(groups, room_group_name(r), c)
    /\ UNCHANGED <<messages, notifications, has_unread_messages, lastReceive>>
    /\ UNCHANGED <<notifVars, pcVars, otherVars>>

\* ChatConsumer.disconnect
ChatDisconnect(c) ==
    /\ connRoom[c] # NoRoom
    /\ groups' = group_discard(groups, room_group_name(connRoom[c]), c)
    /\ connRoom' = [connRoom EXCEPT ![c] = NoRoom]
    /\ UNCHANGED <<messages, notifications, has_unread_messages, lastReceive>>
    /\ UNCHANGED <<notifVars, pcVars, otherVars>>

\* Notifications that do not leave the sender out of the staff.
save_message_notifications_all(r, user, mid) ==
    IF is_staff(user)
    THEN << [chat_room |-> r, recipient |-> patient_user(r),
             notification_type |-> NEW_MESSAGE, message |-> mid,
             is_read |-> FALSE] >>
    ELSE LET staff == SeqOfSet(hospital_staff(r))
         IN [i \in 1..Len(staff) |->
                [chat_room |-> r, recipient |-> staff[i],
                 notification_type |-> NEW_MESSAGE, message |-> mid,
                 is_read |-> FALSE]]

\* The ChatNotification rows save_message creates for message mid of room r
\* sent by user.
save_message_notifications(r, user, mid) ==
    IF is_staff(user)
    THEN << [chat_room |-> r, recipient |-> patient_user(r),
             notification_type |-> NEW_MESSAGE, message |-> mid,
             is_read |-> FALSE] >>
    ELSE LET staff == SeqOfSet(hospital_staff(r) \ {user})
         IN [i \in 1..Len(staff) |->
                [chat_room |-> r, recipient |-> staff[i],
                 notification_type |-> NEW_MESSAGE, message |-> mid,
                 is_read |-> FALSE]]

\* A save_message whose lookups never fail.
save_message_ok_always(r, user_id) == TRUE

\* ChatConsumer.save_message succeeds: User.objects.get and
\* ChatRoom.objects.get both find their row.
save_message_ok(r, user_id) == user_id \in Users /\ r \in ChatRooms

\* ChatConsumer.save_message
save_message(r, user_id, content) ==
    /\ messages' = Append(messages,
                     [chat_room |-> r, sender |-> user_id,
                      content |-> content, is_read |-> FALSE])
    /\ has_unread_messages' = [has_unread_messages EXCEPT ![r] = TRUE]
    /\ notifications' = notifications \o
                          save_message_notifications(r, user_id, Len(messages) + 1)

\* ChatConsumer.receive: save the message, then send it to the room group;
\* every channel of the group runs chat_message and writes the frame.
ChatReceive(c, user_id, content) ==
    /\ connRoom[c] # NoRoom
    /\ Len(messages) < MaxMessages
    /\ LET r == connRoom[c] IN
       IF save_message_ok(r, user_id)
       THEN /\ save_message(r, user_id, content)
            /\ lastReceive' = [conn |-> c, room |-> r, user_id |-> user_id,
                               content |-> content,
                               message |-> Len(messages) + 1,
                               to |-> group_send(groups, room_group_name(r))]
       ELSE \* DoesNotExist is raised out of receive: nothing is sent
            /\ lastReceive' = [conn |-> c, room |-> r, user_id |-> user_id,
                               content |-> content, message |-> 0, to |-> {}]
            /\ UNCHANGED <<messages, notifications, has_unread_messages>>
    /\ UNCHANGED <<groups, connRoom, notifVars, pcVars, otherVars>>

\* ------------------------------------------------------- MessageViewSet

Idle == [op |-> "idle"]

\* MessageViewSet.create, first write: Message.create inserts the message.
CreateInsert(u, r, content) ==
    /\ createPc = Idle
    /\ Len(messages) < MaxMessages
    /\ messages' = Append(messages,
                     [chat_room |-> r, sender |-> u,
                      content |-> content, is_read |-> FALSE])
    /\ createPc' = [op |-> "update_room", room |-> r]
    /\ UNCHANGED <<groups, connRoom, notifications, has_unread_messages,
                   lastReceive, notifVars, viewPc, markPc, otherVars>>

\* MessageViewSet.create, second write: chat_rooms.update_one sets
\* has_unread_messages; the group_send that follows writes to no store.
CreateUpdateRoom ==
    /\ createPc.op = "update_room"
    /\ has_unread_messages' =
          [r \in ChatRooms |->
              IF r = createPc.room THEN TRUE ELSE has_unread_messages[r]]
    /\ createPc' = Idle
    /\ UNCHANGED <<groups, connRoom, messages, notifications, lastReceive,
                   notifVars, viewPc, markPc, otherVars>>

\* ------------------------------------------------------- ChatRoomViewSet

\* The unread_filter of ChatRoomViewSet.messages: unread messages of the
\* room that the requesting user did not send.
unread_filter(m, r, user_id) ==
    m.chat_room = r /\ ~m.is_read /\ m.sender # user_id

\* count_documents({'chat_room_id': r, 'is_read': False})
unread_count(r) ==
    Cardinality({i \in DOMAIN messages :
                    messages[i].chat_room = r /\ ~messages[i].is_read})

\* ChatRoomViewSet.messages, first write: update_many marks as read.
MessagesMarkRead(u, r) ==
    /\ viewPc = Idle
    /\ messages' = [i \in DOMAIN messages |->
                      IF unread_filter(messages[i], r, u)
                      THEN [messages[i] EXCEPT !.is_read = TRUE]
                      ELSE messages[i]]
    /\ viewPc' = [op |-> "count", room |-> r, user_id |-> u]
    /\ UNCHANGED <<groups, connRoom, notifications, has_unread_messages,
                   lastReceive, notifVars, createPc, markPc, otherVars>>

\* ChatRoomViewSet.messages: count_documents reads the unread count.
MessagesCount ==
    /\ viewPc.op = "count"
    /\ viewPc' = [op |-> "clear", room |-> viewPc.room,
                  unread_count |-> unread_count(viewPc.room)]
    /\ UNCHANGED <<chatVars, notifVars, createPc, markPc, otherVars>>

\* ChatRoomViewSet.messages, second write: clear the room flag if the
\* count read before was zero.
MessagesClear ==
    /\ viewPc.op = "clear"
    /\ has_unread_messages' =
          [r \in ChatRooms |->
              IF r = viewPc.room /\ viewPc.unread_count = 0
              THEN FALSE ELSE has_unread_messages[r]]
    /\ viewPc' = Idle
    /\ UNCHANGED <<groups, connRoom, messages, notifications, lastReceive,
                   notifVars, createPc, markPc, otherVars>>

\* ------------------------------------------------------- NotificationConsumer

\* channels.consumer.get_handler_name: the method run for an event type
\* ('.' replaced by '_').
get_handler_name(type) ==
    CASE type = "notification.message" -> "notification_message"
      [] type = "notification.update" -> "notification_update"
      [] type = "new.notification" -> "new_notification"
      [] type = "chat.message" -> "chat_message"

\* The event handlers NotificationConsumer defines.
NotificationConsumerHandlers == {"notification_update", "new_notification"}

\* The frame a NotificationConsumer writes for an event; an event whose
\* handler the consumer does not define raises ValueError and writes none.
notification_frames(type, nid) ==
    IF get_handler_name(type) \in NotificationConsumerHandlers
    THEN {<<(IF get_handler_name(type) = "new_notification"
             THEN "new_notification" ELSE "notification_update"), nid>>}
    ELSE {}

\* Every channel of the group handles the event.
deliver(frames, to, type, nid) ==
    [n \in NotifConns |->
        IF n \in to THEN frames[n] \cup notification_frames(type, nid)
        ELSE frames[n]]

\* NotificationConsumer.connect
NotifConnect(n, u) ==
    /\ notifUser[n] = NoUser
    /\ notifUser' = [notifUser EXCEPT ![n] = u]
    /\ groups' = group_add(groups, notification_group_name(u), n)
    /\ UNCHANGED <<connRoom, messages, notifications, has_unread_messages,
                   lastReceive, wsFrames, lastNotify, pcVars, otherVars>>

\* NotificationConsumer.disconnect
NotifDisconnect(n) ==
    /\ notifUser[n] # NoUser
    /\ groups' = group_discard(groups, notification_group_name(notifUser[n]), n)
    /\ notifUser' = [notifUser EXCEPT ![n] = NoUser]
    /\ UNCHANGED <<connRoom, messages, notifications, has_unread_messages,
                   lastReceive, wsFrames, lastNotify, pcVars, otherVars>>

\* The event type create_notification sends.
create_notification_type == "notification.message"

\* signals.create_notification: insert the notification, then one
\* group_send to the recipient's group.
CreateNotification(recipient_id, chat_room_id, message_id) ==
    /\ Len(notifications) < MaxNotifications
    /\ notifications' = Append(notifications,
                          [chat_room |-> chat_room_id, recipient |-> recipient_id,
                           notification_type |-> "new_message",
                           message |-> message_id, is_read |-> FALSE])
    /\ LET to == group_send(groups, notification_group_name(recipient_id))
           nid == Len(notifications) + 1
       IN /\ wsFrames' = deliver(wsFrames, to, create_notification_type, nid)
          /\ lastNotify' = [id |-> nid, recipient |-> recipient_id,
                            sends |-> 1, to |-> to]
    /\ UNCHANGED <<groups, connRoom, messages, has_unread_messages,
                   lastReceive, notifUser, pcVars, otherVars>>

\* ChatRoom.participants of each room's document.
participants(r) == IF r = "r1" THEN <<"u1", "u2">> ELSE <<"u2", "u3">>

\* The participants notify_message notifies: all but the sender
\* (participant_id != str(sender_id); both are ids as strings).
notify_message_recipients(r, sender_id) ==
    SelectSeq(participants(r), LAMBDA participant_id : participant_id # sender_id)

\* The frames after create_notification has sent one event for each of the
\* notifications first..last, in order.
RECURSIVE deliver_all(_, _, _, _)
deliver_all(frames, rows, first, last) ==
    IF first > last THEN frames
    ELSE deliver_all(
            deliver(frames,
                    group_send(groups, notification_group_name(rows[first].recipient)),
                    create_notification_type, first),
            rows, first + 1, last)

\* signals.notify_message for a stored message: create_notification for
\* every participant of its room except the sender.
NotifyMessage(mid) ==
    /\ mid \in DOMAIN messages
    /\ LET r == messages[mid].chat_room
           sender_id == messages[mid].sender
           recipients == notify_message_recipients(r, sender_id)
           rows == notifications \o
                     [i \in 1..Len(recipients) |->
                         [chat_room |-> r, recipient |-> recipients[i],
                          notification_type |-> "new_message",
                          message |-> mid, is_read |-> FALSE]]
       IN /\ recipients # <<>>
          /\ Len(rows) <= MaxNotifications
          /\ notifications' = rows
          /\ wsFrames' = deliver_all(wsFrames, rows, Len(notifications) + 1, Len(rows))
          /\ lastNotify' =
                [id |-> Len(rows), recipient |-> rows[Len(rows)].recipient,
                 sends |-> 1,
                 to |-> group_send(groups,
                          notification_group_name(rows[Len(rows)].recipient))]
    /\ UNCHANGED <<groups, connRoom, messages, has_unread_messages,
                   lastReceive, notifUser, pcVars, otherVars>>

\* NotificationConsumer.receive with action 'mark_read', first statement of
\* mark_notification_read: ChatNotification.objects.get(id, recipient_id,
\* is_read=False); DoesNotExist returns False and receive goes on to send.
MarkGet(n, nid) ==
    /\ markPc = Idle
    /\ notifUser[n] # NoUser
    /\ LET user_id == notifUser[n]
           found == /\ nid \in DOMAIN notifications
                    /\ notifications[nid].recipient = user_id
                    /\ ~notifications[nid].is_read
       IN markPc' = [op |-> IF found THEN "save_notification" ELSE "send",
                     user_id |-> user_id, nid |-> nid]
    /\ UNCHANGED <<chatVars, notifVars, createPc, viewPc, otherVars>>

\* mark_notification_read: notification.is_read = True; notification.save()
MarkSaveNotification ==
    /\ markPc.op = "save_notification"
    /\ notifications' = [notifications EXCEPT ![markPc.nid].is_read = TRUE]
    /\ markPc' = [markPc EXCEPT !.op =
                     IF notifications[markPc.nid].message # 0
                     THEN "save_message" ELSE "send"]
    /\ UNCHANGED <<groups, connRoom, messages, has_unread_messages,
                   lastReceive, notifVars, createPc, viewPc, otherVars>>

\* mark_notification_read: notification.message.is_read = True; save()
MarkSaveMessage ==
    /\ markPc.op = "save_message"
    /\ LET mid == notifications[markPc.nid].message
       IN messages' = [i \in DOMAIN messages |->
                         IF i = mid THEN [messages[i] EXCEPT !.is_read = TRUE]
                         ELSE messages[i]]
    /\ markPc' = [markPc EXCEPT !.op = "count"]
    /\ UNCHANGED <<groups, connRoom, notifications, has_unread_messages,
                   lastReceive, notifVars, createPc, viewPc, otherVars>>

\* mark_notification_read: count the unread messages of the room.
MarkCount ==
    /\ markPc.op = "count"
    /\ markPc' = [markPc EXCEPT !.op =
                     IF unread_count(notifications[markPc.nid].chat_room) = 0
                     THEN "clear" ELSE "send"]
    /\ UNCHANGED <<chatVars, notifVars, createPc, viewPc, otherVars>>

\* mark_notification_read: chat_room.has_unread_messages = False; save()
MarkClear ==
    /\ markPc.op = "clear"
    /\ has_unread_messages' =
          [r \in ChatRooms |->
              IF r = notifications[markPc.nid].chat_room
              THEN FALSE ELSE has_unread_messages[r]]
    /\ markPc' = [markPc EXCEPT !.op = "send"]
    /\ UNCHANGED <<groups, connRoom, messages, notifications, lastReceive,
                   notifVars, createPc, viewPc, otherVars>>

\* NotificationConsumer.receive: group_send of notification.update to the
\* connection's group, whatever mark_notification_read returned.
MarkSend ==
    /\ markPc.op = "send"
    /\ wsFrames' = deliver(wsFrames,
                     group_send(groups, notification_group_name(markPc.user_id)),
                     "notification.update", markPc.nid)
    /\ markPc' = Idle
    /\ UNCHANGED <<chatVars, notifUser, lastNotify, createPc, viewPc, otherVars>>

\* ------------------------------------------------------- ChatNotificationViewSet

NoApiResponse ==
    [action |-> "none", user |-> "none", size |-> 0, prev |-> <<"none", "none", 0>>]

\* A response and the size of the store it was computed on, with the
\* action, user and store size of the response before it.
ApiResponse(action, user, pk, body) ==
    [action |-> action, user |-> user, pk |-> pk, body |-> body,
     size |-> Len(notifications),
     prev |-> <<lastNotifApi.action, lastNotifApi.user, lastNotifApi.size>>]

\* notifications.find({'recipient_id': user})
notifications_of(rows, user) ==
    {i \in DOMAIN rows : rows[i].recipient = user}

\* notifications.count_documents({'recipient_id': user, 'is_read': False})
unread_notifications(rows, user) ==
    Cardinality({i \in DOMAIN rows : rows[i].recipient = user /\ ~rows[i].is_read})

\* A mark_all_read that updates nothing.
mark_all_read_nothing(rows, user) == rows

\* notifications.update_many({'recipient_id': user, 'is_read': False},
\*                           {'$set': {'is_read': True}})
mark_all_read(rows, user) ==
    [i \in DOMAIN rows |->
        IF rows[i].recipient = user /\ ~rows[i].is_read
        THEN [rows[i] EXCEPT !.is_read = TRUE]
        ELSE rows[i]]

\* notifications.update_one({'_id': ObjectId(pk)}, {'$set': {'is_read': True}})
mark_read(rows, pk) ==
    [i \in DOMAIN rows |->
        IF i = pk THEN [rows[i] EXCEPT !.is_read = TRUE] ELSE rows[i]]

\* ChatNotificationViewSet.list
NotificationList(user) ==
    /\ lastNotifApi' = ApiResponse("list", user, 0, notifications_of(notifications, user))
    /\ UNCHANGED <<chatVars, notifVars, pcVars, hospVars, patVars, flaskVars, fhirVars,
                   obsVars, userVars>>

\* ChatNotificationViewSet.mark_all_read
NotificationMarkAllRead(user) ==
    /\ notifications' = mark_all_read(notifications, user)
    /\ lastNotifApi' = ApiResponse("mark_all_read", user, 0, {})
    /\ UNCHANGED <<groups, connRoom, messages, has_unread_messages, lastReceive,
                   notifVars, pcVars, hospVars, patVars, flaskVars, fhirVars, obsVars,
                   userVars>>

\* ChatNotificationViewSet.mark_read
NotificationMarkRead(user, pk) ==
    /\ notifications' = mark_read(notifications, pk)
    /\ lastNotifApi' = ApiResponse("mark_read", user, pk, {})
    /\ UNCHANGED <<groups, connRoom, messages, has_unread_messages, lastReceive,
                   notifVars, pcVars, hospVars, patVars, flaskVars, fhirVars, obsVars,
                   userVars>>

\* ChatNotificationViewSet.unread_count
NotificationUnreadCount(user) ==
    /\ lastNotifApi' = ApiResponse("unread_count", user, 0,
                                   unread_notifications(notifications, user))
    /\ UNCHANGED <<chatVars, notifVars, pcVars, hospVars, patVars, flaskVars, fhirVars,
                   obsVars, userVars>>

\* ------------------------------------------------------- strings

\* Strings the code takes apart are sequences of one-character strings.
LOCALHOST == <<"l", "o", "c", "a", "l", "h", "o", "s", "t">>
LOOPBACK == <<"1", "2", "7", ".", "0", ".", "0", ".", "1">>
WWW == <<"w", "w", "w">>

\* The position of the first occurrence of character sep in s, 0 if none.
find(s, sep) ==
    LET at == {i \in 1..Len(s) : s[i] = sep}
    IN IF at = {} THEN 0 ELSE CHOOSE i \in at : \A j \in at : i <= j

RECURSIVE split(_, _)
\* str.split(sep)
split(s, sep) ==
    LET k == find(s, sep)
    IN IF k = 0 THEN <<s>>
       ELSE <<SubSeq(s, 1, k - 1)>> \o split(SubSeq(s, k + 1, Len(s)), sep)

RECURSIVE join(_, _)
\* sep.join(parts)
join(parts, sep) ==
    IF Len(parts) = 0 THEN <<>>
    ELSE IF Len(parts) = 1 THEN parts[1]
    ELSE parts[1] \o <<sep>> \o join(Tail(parts), sep)

\* str.lower() on one character
lower_char(c) == IF c = "A" THEN "a" ELSE IF c = "B" THEN "b" ELSE c

\* str.lower()
lower(s) == [i \in 1..Len(s) |-> lower_char(s[i])]

\* str.replace(old, new) for one-character old and new
replace(s, old, new) == [i \in 1..Len(s) |-> IF s[i] = old THEN new ELSE s[i]]

\* Characters matched by \w, by \s, and the hyphen.
WordChars == {"a", "b", "w", "A", "B", "_", "0", "1", "2", "7"}
SpaceChars == {" "}

RECURSIVE keep_slug_chars(_)
\* re.sub(r'[^\w\s-]', '', value)
keep_slug_chars(s) ==
    IF s = <<>> THEN <<>>
    ELSE IF Head(s) \in WordChars \cup SpaceChars \cup {"-"}
         THEN <<Head(s)>> \o keep_slug_chars(Tail(s))
         ELSE keep_slug_chars(Tail(s))

RECURSIVE collapse_separators(_)
\* re.sub(r'[-\s]+', '-', value)
collapse_separators(s) ==
    IF s = <<>> THEN <<>>
    ELSE IF Head(s) \in SpaceChars \cup {"-"}
         THEN IF Len(s) > 1 /\ s[2] \in SpaceChars \cup {"-"}
              THEN collapse_separators(Tail(s))
              ELSE <<"-">> \o collapse_separators(Tail(s))
         ELSE <<Head(s)>> \o collapse_separators(Tail(s))

RECURSIVE strip(_, _)
\* str.strip(chars)
strip(s, chars) ==
    IF s = <<>> THEN s
    ELSE IF Head(s) \in chars THEN strip(Tail(s), chars)
    ELSE IF s[Len(s)] \in chars THEN strip(SubSeq(s, 1, Len(s) - 1), chars)
    ELSE s

\* django.utils.text.slugify
slugify(name) ==
    strip(collapse_separators(keep_slug_chars(lower(name))), {"-", "_"})

\* ------------------------------------------------------- hospitals store

\* Hospital names a request may carry.
Names == { <<"a">>, <<"A", "!">>, <<"a", " ", "b">>, WWW }

\* The users that administer hospitals (identified by their admin_email).
Admins == {"u2", "u3"}
Anonymous == "anonymous"

BASIC == "basic"

\* request.hospital = None
None == 0
NoRequest == [status |-> 0]

\* Hospital.__init__ / to_dict
Hospital(id, name, admin_email) ==
    [id |-> id, name |-> name, subdomain |-> slugify(name),
     admin_email |-> admin_email, is_active |-> TRUE]

\* Subscription.__init__ / to_dict
Subscription(id, hospital_id, plan) ==
    [id |-> id, hospital_id |-> hospital_id, plan |-> plan, is_active |-> TRUE]

\* HospitalView.post: Hospital.create, then Subscription.create.
HospitalPost(name, admin_email, plan) ==
    /\ nextObjectId <= MaxHospitals
    /\ hospitals' = hospitals \cup {Hospital(nextObjectId, name, admin_email)}
    /\ subscriptions' = subscriptions
                          \cup {Subscription(nextObjectId, nextObjectId, plan)}
    /\ nextObjectId' = nextObjectId + 1
    /\ UNCHANGED <<lastRequest, chatVars, notifVars, pcVars, patVars, restVars>>

\* HospitalView.post when the insert of Subscription.create raises: the
\* hospital inserted before it stays.
HospitalPostSubscriptionFails(name, admin_email) ==
    /\ nextObjectId <= MaxHospitals
    /\ hospitals' = hospitals \cup {Hospital(nextObjectId, name, admin_email)}
    /\ nextObjectId' = nextObjectId + 1
    /\ UNCHANGED <<subscriptions, lastRequest, chatVars, notifVars, pcVars, patVars, restVars>>

\* main.create_hospital: the subdomain is name.lower().replace(" ", "-");
\* the hospital row and its subscription row are inserted.
create_hospital(name, admin_email, plan) ==
    /\ nextObjectId <= MaxHospitals
    /\ hospitals' = hospitals \cup
          {[id |-> nextObjectId, name |-> name,
            subdomain |-> replace(lower(name), " ", "-"),
            admin_email |-> admin_email, is_active |-> TRUE]}
    /\ subscriptions' = subscriptions \cup
          {[id |-> nextObjectId, hospital_id |-> nextObjectId,
            plan |-> plan, is_active |-> TRUE]}
    /\ nextObjectId' = nextObjectId + 1
    /\ UNCHANGED <<lastRequest, chatVars, notifVars, pcVars, patVars, restVars>>

\* A PATCH that leaves the subscriptions as they are.
update_subscription_skipped(subs, hospital_id, is_active) == subs

\* Subscription.collection.update_one({'hospital_id': id}, {'$set': ...}):
\* the first matching document is updated.
update_subscription(subs, hospital_id, is_active) ==
    IF \E sub \in subs : sub.hospital_id = hospital_id
    THEN LET sub == CHOOSE x \in subs : x.hospital_id = hospital_id
         IN (subs \ {sub}) \cup {[sub EXCEPT !.is_active = is_active]}
    ELSE subs

\* Whether the request data carries a field ('name' in data).
has(data, field) == field \in DOMAIN data

\* The update_data HospitalDetailView.patch builds from the request data,
\* applied to a hospital document.
patch_hospital(h, data) ==
    LET renamed == IF has(data, "name")
                   THEN [h EXCEPT !.name = data.name,
                                  !.subdomain = slugify(data.name)]
                   ELSE h
    IN IF has(data, "is_active")
       THEN [renamed EXCEPT !.is_active = data.is_active]
       ELSE renamed

\* The request data of a PATCH.
PatchData(names) ==
    [name : names] \cup [is_active : BOOLEAN]
        \cup [name : names, is_active : BOOLEAN]

\* HospitalDetailView.patch: the subscription is updated first when the
\* data carries is_active, then the hospital document.
HospitalPatch(hospital_id, data) ==
    /\ subscriptions' = IF has(data, "is_active")
                        THEN update_subscription(subscriptions, hospital_id,
                                                 data.is_active)
                        ELSE subscriptions
    /\ hospitals' = {IF h.id = hospital_id THEN patch_hospital(h, data)
                     ELSE h : h \in hospitals}
    /\ UNCHANGED <<nextObjectId, lastRequest, chatVars, notifVars, pcVars, patVars, restVars>>

\* HospitalDetailView.delete: delete the hospital; if one was deleted,
\* delete its subscriptions.
HospitalDelete(hospital_id) ==
    /\ \E h \in hospitals : h.id = hospital_id
    /\ hospitals' = {h \in hospitals : h.id # hospital_id}
    /\ subscriptions' = {sub \in subscriptions : sub.hospital_id # hospital_id}
    /\ UNCHANGED <<nextObjectId, lastRequest, chatVars, notifVars, pcVars, patVars, restVars>>

\* HospitalDetailView.delete when delete_many on the subscriptions raises:
\* the hospital is gone, its subscription stays.
HospitalDeleteSubscriptionsFails(hospital_id) ==
    /\ \E h \in hospitals : h.id = hospital_id
    /\ \E sub \in subscriptions : sub.hospital_id = hospital_id
    /\ hospitals' = {h \in hospitals : h.id # hospital_id}
    /\ UNCHANGED <<subscriptions, nextObjectId, lastRequest, chatVars, notifVars,
                   pcVars, patVars, restVars>>

\* ------------------------------------------------------- tenant middleware

\* Hosts a request may carry: dot-separated labels and an optional port.
HostLabels ==
    { <<LOCALHOST>>,
      << <<"a">>, LOCALHOST >>,
      << WWW, LOCALHOST >>,
      << <<"a">>, <<"b">>, LOCALHOST >>,
      << <<"1", "2", "7">>, <<"0">>, <<"0">>, <<"1">> >> }
NoPort == <<>>
Port80 == <<":", "8", "0">>
Hosts == (HostLabels \X {NoPort}) \cup {<< << <<"a">>, LOCALHOST >>, Port80 >>}

\* request.get_host()
get_host(labels, port) == join(labels, ".") \o port

\* Any authenticated user taken for the hospital's admin.
is_hospital_admin_any(user, hospital) == user # Anonymous

\* request.user.is_authenticated and request.user == request.hospital.admin
is_hospital_admin(user, hospital) ==
    user # Anonymous /\ user = hospital.admin_email

\* Hospital.objects.get(subdomain=subdomain, is_active=True): the rows
\* that match.
active_hospitals(subdomain) ==
    {h \in hospitals : h.subdomain = subdomain /\ h.is_active}

\* HospitalSubdomainMiddleware.__call__: what it sets on the request, and
\* whether it raised (get finds several rows: MultipleObjectsReturned is
\* not caught, and request.hospital is never assigned).
HospitalSubdomainMiddleware(host, user) ==
    LET hostname == split(host, ":")[1]
        parts == split(hostname, ".")
        \* subdomain = None is the empty string here: both are falsy
        subdomain == IF Len(parts) >= 2 /\ parts[Len(parts)] \in {LOCALHOST, LOOPBACK}
                     THEN parts[1] ELSE <<>>
        found == active_hospitals(subdomain)
    IN IF hostname \in {LOCALHOST, LOOPBACK} /\ Len(parts) = 1
       THEN [hospital |-> None, has_is_hospital_admin |-> FALSE,
             is_hospital_admin |-> FALSE, raised |-> FALSE]
       ELSE IF subdomain # <<>> /\ subdomain # WWW
       THEN IF Cardinality(found) = 1
            THEN LET h == CHOOSE x \in found : TRUE
                 IN [hospital |-> h.id, has_is_hospital_admin |-> TRUE,
                     is_hospital_admin |-> is_hospital_admin(user, h),
                     raised |-> FALSE]
            ELSE IF found = {}
            THEN [hospital |-> None, has_is_hospital_admin |-> TRUE,
                  is_hospital_admin |-> FALSE, raised |-> FALSE]
            ELSE [hospital |-> None, has_is_hospital_admin |-> FALSE,
                  is_hospital_admin |-> FALSE, raised |-> TRUE]
       ELSE [hospital |-> None, has_is_hospital_admin |-> TRUE,
             is_hospital_admin |-> FALSE, raised |-> FALSE]

\* IsHospitalAdmin.has_permission
IsHospitalAdmin(request) ==
    request.has_is_hospital_admin /\ request.is_hospital_admin

\* get_hospital_dashboard behind its permission class: the response status.
get_hospital_dashboard(request) ==
    IF ~IsHospitalAdmin(request) THEN 403
    ELSE IF request.hospital = None THEN 404
    ELSE 200

\* A GET of the hospital dashboard: the middleware, then the view.
DashboardRequest(labels, port, user) ==
    /\ LET request == HospitalSubdomainMiddleware(get_host(labels, port), user)
       IN lastRequest' =
            [labels |-> labels, port |-> port, user |-> user,
             hospital |-> request.hospital,
             raised |-> request.raised,
             status |-> IF request.raised THEN 500
                        ELSE get_hospital_dashboard(request)]
    /\ UNCHANGED <<hospitals, subscriptions, nextObjectId, chatVars, notifVars,
                   pcVars, patVars, restVars>>

\* ------------------------------------------------------- patients

\* Patient rows and Patient.user
Patients == {"p1", "p2"}
Patient_user(p) == IF p = "p1" THEN "u1" ELSE "u3"

\* MedicalRecord rows and MedicalRecord.patient
MedicalRecords == {"m1", "m2", "m3"}
MedicalRecord_patient(m) == IF m = "m1" THEN "p1" ELSE "p2"

\* Appointment rows and Appointment.patient
Appointments == {"a1", "a2", "a3"}
Appointment_patient(a) == IF a = "a2" THEN "p2" ELSE "p1"

\* A primary key that names no row.
UnknownPk == "x0"

\* PatientViewSet.get_queryset
Patient_get_queryset(user) ==
    IF ~is_staff(user) THEN {p \in Patients : Patient_user(p) = user}
    ELSE Patients

\* MedicalRecordViewSet.get_queryset
MedicalRecord_get_queryset(user) ==
    IF ~is_staff(user)
    THEN {m \in MedicalRecords : Patient_user(MedicalRecord_patient(m)) = user}
    ELSE MedicalRecords

\* Every appointment, whoever asks.
Appointment_get_queryset_all(user) == Appointments

\* AppointmentViewSet.get_queryset
Appointment_get_queryset(user) ==
    IF ~is_staff(user)
    THEN {a \in Appointments : Patient_user(Appointment_patient(a)) = user}
    ELSE Appointments

\* GenericAPIView.get_object: the row of the queryset with this pk, if any.
get_object(queryset, pk) == queryset \cap {pk}

NoResponse == [action |-> <<"none">>, user |-> "none", rows |-> {}]

\* A response: its status and the rows it carries.
Response(action, user, pk, found, rows) ==
    [action |-> action, user |-> user, pk |-> pk,
     status |-> IF found THEN 200 ELSE 404,
     rows |-> IF found THEN rows ELSE {}]

\* The list action of the three viewsets.
List(viewset, user) ==
    /\ lastResponse' =
          Response(<<viewset, "list">>, user, UnknownPk, TRUE,
                   CASE viewset = "patients" -> Patient_get_queryset(user)
                     [] viewset = "medical_records" -> MedicalRecord_get_queryset(user)
                     [] viewset = "appointments" -> Appointment_get_queryset(user))
    /\ UNCHANGED <<appointments, chatVars, notifVars, pcVars, hospVars, restVars>>

\* The retrieve action of the three viewsets.
Retrieve(viewset, user, pk) ==
    /\ LET object ==
             CASE viewset = "patients" -> get_object(Patient_get_queryset(user), pk)
               [] viewset = "medical_records" ->
                     get_object(MedicalRecord_get_queryset(user), pk)
               [] viewset = "appointments" ->
                     get_object(Appointment_get_queryset(user), pk)
       IN lastResponse' = Response(<<viewset, "retrieve">>, user, pk,
                                   object # {}, object)
    /\ UNCHANGED <<appointments, chatVars, notifVars, pcVars, hospVars, restVars>>

\* PatientViewSet.medical_records
PatientMedicalRecords(user, pk) ==
    /\ LET patient == get_object(Patient_get_queryset(user), pk)
       IN lastResponse' =
            Response(<<"patients", "medical_records">>, user, pk, patient # {},
                     {m \in MedicalRecords : MedicalRecord_patient(m) \in patient})
    /\ UNCHANGED <<appointments, chatVars, notifVars, pcVars, hospVars, restVars>>

\* PatientViewSet.appointments
PatientAppointments(user, pk) ==
    /\ LET patient == get_object(Patient_get_queryset(user), pk)
       IN lastResponse' =
            Response(<<"patients", "appointments">>, user, pk, patient # {},
                     {a \in Appointments : Appointment_patient(a) \in patient})
    /\ UNCHANGED <<appointments, chatVars, notifVars, pcVars, hospVars, restVars>>

\* AppointmentViewSet.cancel
AppointmentCancel(user, pk) ==
    /\ LET appointment == get_object(Appointment_get_queryset(user), pk)
       IN /\ appointments' = [a \in Appointments |->
                                 IF a \in appointment THEN "CANCELLED"
                                 ELSE appointments[a]]
          /\ lastResponse' = Response(<<"appointments", "cancel">>, user, pk,
                                      appointment # {}, appointment)
    /\ UNCHANGED <<chatVars, notifVars, pcVars, hospVars, restVars>>

\* ------------------------------------------------------- FHIR viewsets

\* LOINC codes and medical record ids a create_observation request carries.
Codes == {"c1", "c2"}
RecordIds == {"m1", "m2"}

\* A FHIRPatient row (one per patient) and a FHIRObservation row.
FHIRPatient(patient) == [model |-> "FHIRPatient", patient |-> patient]
FHIRObservation(patient, medical_record_id, code) ==
    [model |-> "FHIRObservation", patient |-> patient,
     medical_record |-> medical_record_id, code |-> code]

\* FHIRPatientViewSet.get_queryset
FHIRPatient_get_queryset(user) ==
    LET queryset == {FHIRPatient(p) : p \in fhirPatients}
    IN IF ~is_staff(user)
       THEN {row \in queryset : Patient_user(row.patient) = user}
       ELSE queryset

\* FHIRObservationViewSet.get_queryset
FHIRObservation_get_queryset(user) ==
    IF ~is_staff(user)
    THEN {row \in fhirObservations : Patient_user(row.patient) = user}
    ELSE fhirObservations

\* A response of a FHIR action: its status, the rows it returns and the
\* rows it created or updated.
FhirResponse(action, user, status, rows, written) ==
    [action |-> action, user |-> user, status |-> status, rows |-> rows,
     written |-> written]

\* The list action of the two FHIR viewsets.
FhirList(viewset, user) ==
    /\ lastFhir' =
          FhirResponse(<<viewset, "list">>, user, 200,
                       IF viewset = "fhir/patients"
                       THEN FHIRPatient_get_queryset(user)
                       ELSE FHIRObservation_get_queryset(user), {})
    /\ UNCHANGED <<fhirPatients, fhirObservations, chatVars, notifVars, pcVars,
                   hospVars, patVars, flaskVars, obsVars, userVars, lastNotifApi>>

\* The retrieve action of the two FHIR viewsets.
FhirRetrieve(viewset, user, row) ==
    /\ LET object == get_object(IF viewset = "fhir/patients"
                                THEN FHIRPatient_get_queryset(user)
                                ELSE FHIRObservation_get_queryset(user), row)
       IN lastFhir' = FhirResponse(<<viewset, "retrieve">>, user,
                                   IF object # {} THEN 200 ELSE 404, object, {})
    /\ UNCHANGED <<fhirPatients, fhirObservations, chatVars, notifVars, pcVars,
                   hospVars, patVars, flaskVars, obsVars, userVars, lastNotifApi>>

\* FHIRPatientViewSet.sync_with_fhir
sync_with_fhir(user, patient_id) ==
    /\ IF patient_id \notin Patients
       THEN \* get_object_or_404(Patient, id=patient_id)
            /\ lastFhir' = FhirResponse(<<"fhir/patients", "sync_with_fhir">>,
                                        user, 404, {}, {})
            /\ UNCHANGED fhirPatients
       ELSE \* FHIRPatient.objects.update_or_create(patient=patient, ...)
            /\ fhirPatients' = fhirPatients \cup {patient_id}
            /\ lastFhir' = FhirResponse(<<"fhir/patients", "sync_with_fhir">>,
                                        user, 200, {FHIRPatient(patient_id)},
                                        {FHIRPatient(patient_id)})
    /\ UNCHANGED <<fhirObservations, chatVars, notifVars, pcVars, hospVars,
                   patVars, flaskVars, obsVars, userVars, lastNotifApi>>

\* FHIRObservationViewSet.create_observation
create_observation(user, patient_id, medical_record_id, code) ==
    /\ LET action == <<"fhir/observations", "create_observation">>
           observation == FHIRObservation(patient_id, medical_record_id, code)
       IN IF patient_id \notin Patients
          THEN \* get_object_or_404(Patient, id=patient_id)
               /\ lastFhir' = FhirResponse(action, user, 404, {}, {})
               /\ UNCHANGED fhirObservations
          ELSE IF \/ patient_id \notin fhirPatients
                  \/ \E row \in fhirObservations :
                        row.patient = patient_id /\ row.code = code
          THEN \* patient.fhir_data raises RelatedObjectDoesNotExist, or the
               \* unique fhir_id 'obs-<patient>-<code>' raises IntegrityError
               /\ lastFhir' = FhirResponse(action, user, 500, {}, {})
               /\ UNCHANGED fhirObservations
          ELSE /\ fhirObservations' = fhirObservations \cup {observation}
               /\ lastFhir' = FhirResponse(action, user, 201, {observation},
                                           {observation})
    /\ UNCHANGED <<fhirPatients, chatVars, notifVars, pcVars, hospVars, patVars, flaskVars,
                   obsVars, userVars, lastNotifApi>>

\* ------------------------------------------------------- Flask app: observations

\* Strings of the Flask app, as tuples of characters.
PATIENT_SLASH == <<"P", "a", "t", "i", "e", "n", "t", "/">>
PATIENT_DASH == <<"p", "a", "t", "i", "e", "n", "t", "-">>
OBS_DASH == <<"o", "b", "s", "-">>

\* One decimal digit as a character.
digit(d) ==
    CASE d = 0 -> "0" [] d = 1 -> "1" [] d = 2 -> "2" [] d = 3 -> "3"
      [] d = 4 -> "4" [] d = 5 -> "5" [] d = 6 -> "6" [] d = 7 -> "7"
      [] d = 8 -> "8" [] d = 9 -> "9"

\* The decimal digits of n.
RECURSIVE decimal(_)
decimal(n) == IF n < 10 THEN <<digit(n)>> ELSE decimal(n \div 10) \o <<digit(n % 10)>>

\* Format specification 03d: decimal, zero-padded to at least three characters.
format_03d(n) ==
    LET digits == decimal(n)
    IN IF Len(digits) >= 3 THEN digits
       ELSE [i \in 1..(3 - Len(digits)) |-> "0"] \o digits

\* sub in s, for strings
contains(s, sub) ==
    \E i \in 0..(Len(s) - Len(sub)) : SubSeq(s, i + 1, i + Len(sub)) = sub

\* Patient ids that requests name.
PatientIds == { PATIENT_DASH \o <<"0", "0", "1">>,
                PATIENT_DASH \o <<"0", "0", "2">>,
                PATIENT_DASH \o <<"0", "0", "1", "2">> }

\* The patient query parameter: absent, empty, or a patient id.
NoParam == <<"<absent>">>
PatientParams == PatientIds \cup {NoParam, <<>>}

\* An observation document: its id and its subject reference, if it has one.
Observation(id, has_subject, reference) ==
    [id |-> id, has_subject |-> has_subject, reference |-> reference]

\* The observations the module starts with: obs-001 and obs-002 of patient-001.
mock_observations ==
    << Observation(OBS_DASH \o <<"0", "0", "1">>, TRUE,
                   PATIENT_SLASH \o PATIENT_DASH \o <<"0", "0", "1">>),
       Observation(OBS_DASH \o <<"0", "0", "2">>, TRUE,
                   PATIENT_SLASH \o PATIENT_DASH \o <<"0", "0", "1">>) >>

\* Ids a client may supply in a POST; NoId: the document has no 'id'.
NoId == <<"<absent>">>
ClientIds == { OBS_DASH \o <<"0", "0", "1">>, OBS_DASH \o <<"0", "0", "4">>, <<"x">> }

\* Documents a client may POST.
PostedData ==
    {Observation(id, TRUE, PATIENT_SLASH \o p) : id \in ClientIds \cup {NoId},
                                                  p \in PatientIds}
    \cup {Observation(id, FALSE, <<>>) : id \in {NoId, <<"x">>}}

\* get_observations: the filtered list, or KeyError when a document
\* examined by the filter has no subject.
get_observations(patient_id) ==
    IF patient_id # NoParam /\ patient_id # <<>>
    THEN IF \E i \in DOMAIN observations : ~observations[i].has_subject
         THEN [endpoint |-> "get_observations", patient |-> patient_id,
               status |-> 500, body |-> {}]
         ELSE [endpoint |-> "get_observations", patient |-> patient_id,
               status |-> 200,
               body |-> {i \in DOMAIN observations :
                           contains(observations[i].reference,
                                    PATIENT_SLASH \o patient_id)}]
    ELSE [endpoint |-> "get_observations", patient |-> patient_id,
          status |-> 200, body |-> DOMAIN observations]

\* GET /fhir/Observation
GetObservations(patient_id) ==
    /\ lastFlask' = get_observations(patient_id)
    /\ UNCHANGED <<observations, chatVars, notifVars, pcVars, hospVars, patVars, flaskVars,
                   fhirVars, userVars, lastNotifApi>>

\* get_observation: the position of the first observation with this id
\* (0: none, answered 404).
get_observation(obs_id) ==
    LET found == {i \in DOMAIN observations : observations[i].id = obs_id}
    IN IF found = {} THEN 0
       ELSE CHOOSE i \in found : \A j \in found : i <= j

\* GET /fhir/Observation/<obs_id>
GetObservation(obs_id) ==
    /\ lastFlask' = [endpoint |-> "get_observation", id |-> obs_id,
                     status |-> IF get_observation(obs_id) = 0 THEN 404 ELSE 200,
                     body |-> {get_observation(obs_id)} \ {0}]
    /\ UNCHANGED <<observations, chatVars, notifVars, pcVars, hospVars, patVars, flaskVars,
                   fhirVars, userVars, lastNotifApi>>

\* POST /fhir/Observation
add_observation(data) ==
    /\ Len(observations) < MaxObservations
    /\ LET stored == IF data.id = NoId
                     THEN [data EXCEPT !.id =
                              OBS_DASH \o format_03d(Len(observations) + 1)]
                     ELSE data
       IN /\ observations' = Append(observations, stored)
          /\ lastFlask' = [endpoint |-> "add_observation", id |-> stored.id,
                           status |-> 201, body |-> {Len(observations) + 1}]
    /\ UNCHANGED <<chatVars, notifVars, pcVars, hospVars, patVars, flaskVars, fhirVars,
                   userVars, lastNotifApi>>

\* ------------------------------------------------------- Flask app: users

\* Roles, as strings.
PATIENT == <<"p", "a", "t", "i", "e", "n", "t">>
PROVIDER == <<"p", "r", "o", "v", "i", "d", "e", "r">>
ADMIN == <<"a", "d", "m", "i", "n">>
Roles == {PATIENT, ADMIN}

\* The users the module starts with.
mock_users ==
    [email \in {"patient@example.com", "provider@example.com", "admin@example.com"} |->
        IF email = "patient@example.com"
        THEN [id |-> PATIENT \o <<"-", "0", "0", "1">>, role |-> PATIENT]
        ELSE IF email = "provider@example.com"
        THEN [id |-> PROVIDER \o <<"-", "0", "0", "1">>, role |-> PROVIDER]
        ELSE [id |-> ADMIN \o <<"-", "0", "0", "1">>, role |-> ADMIN]]

\* Emails a registration may carry, and the threads that serve requests.
Emails == {"e1", "e2", "patient@example.com"}
Threads == {"t1", "t2"}

\* register, up to the new user id: the email check and
\* user_id = f"{role}-{len(users) + 1:03d}"
RegisterCheck(t, email, role) ==
    /\ registerPc[t] = Idle
    /\ Cardinality(DOMAIN users) < MaxUsers
    /\ email \notin DOMAIN users
    /\ registerPc' =
          [registerPc EXCEPT ![t] =
              [op |-> "store", email |-> email, role |-> role,
               user_id |-> role \o <<"-">> \o
                             format_03d(Cardinality(DOMAIN users) + 1)]]
    /\ UNCHANGED <<users, chatVars, notifVars, pcVars, hospVars, patVars, flaskVars,
                   fhirVars, obsVars, lastNotifApi>>

\* register answers 409 for an email that is already registered.
RegisterConflict(t, email) ==
    /\ registerPc[t] = Idle
    /\ email \in DOMAIN users
    /\ registerPc' = [registerPc EXCEPT ![t] = [op |-> "answered", status |-> 409]]
    /\ UNCHANGED <<users, chatVars, notifVars, pcVars, hospVars, patVars, flaskVars,
                   fhirVars, obsVars, lastNotifApi>>

\* register: users[email] = {...}, then the 201 response.
RegisterStore(t) ==
    /\ registerPc[t].op = "store"
    /\ LET q == registerPc[t]
       IN users' = [email \in DOMAIN users \cup {q.email} |->
                       IF email = q.email
                       THEN [id |-> q.user_id, role |-> q.role]
                       ELSE users[email]]
    /\ registerPc' = [registerPc EXCEPT ![t] = [op |-> "answered", status |-> 201]]
    /\ UNCHANGED <<chatVars, notifVars, pcVars, hospVars, patVars, flaskVars, fhirVars,
                   obsVars, lastNotifApi>>

\* The response is sent; the thread takes the next request.
RegisterDone(t) ==
    /\ registerPc[t].op = "answered"
    /\ registerPc' = [registerPc EXCEPT ![t] = Idle]
    /\ UNCHANGED <<users, chatVars, notifVars, pcVars, hospVars, patVars, flaskVars,
                   fhirVars, obsVars, lastNotifApi>>

\* ------------------------------------------- Flask app: role endpoints

\* add_appointment appends the posted document as it is; an appointment is
\* kept by whether it has a 'participant' list.
add_appointment(has_participant) ==
    /\ Len(flask_appointments) < MaxAppointments
    /\ flask_appointments' =
          Append(flask_appointments, [has_participant |-> has_participant])
    /\ UNCHANGED <<rolePc, chatVars, notifVars, pcVars, hospVars, patVars,
                   fhirVars, obsVars, userVars, lastNotifApi>>

\* A role endpoint is entered and
\* next((u for u in users.values() if u['id'] == current_user_id), None)
\* starts to iterate over the dict as it is now.
RoleIterate(endpoint, identity) ==
    /\ rolePc = Idle
    /\ rolePc' = [op |-> endpoint, identity |-> identity,
                  used |-> Cardinality(DOMAIN users)]
    /\ UNCHANGED <<flask_appointments, chatVars, notifVars, pcVars, hospVars,
                   patVars, fhirVars, obsVars, userVars, lastNotifApi>>

\* The users the generator may yield first; none when the set is empty.
find_user(identity) == {email \in DOMAIN users : users[email].id = identity}

\* The rest of a role endpoint.  The iteration raises RuntimeError (500)
\* when another thread has added a key to users since it started;
\* otherwise the answer follows the role of the user found.
RoleAnswer(endpoint, role, failed) ==
    /\ rolePc.op = endpoint
    /\ \/ /\ rolePc.used # Cardinality(DOMAIN users)
          /\ lastFlask' = [endpoint |-> endpoint,
                           identity |-> rolePc.identity, status |-> 500]
       \/ /\ find_user(rolePc.identity) = {}
          /\ lastFlask' = [endpoint |-> endpoint,
                           identity |-> rolePc.identity, status |-> 403]
       \/ \E user \in find_user(rolePc.identity) :
             lastFlask' = [endpoint |-> endpoint,
                           identity |-> rolePc.identity,
                           status |-> IF users[user].role # role THEN 403
                                      ELSE IF failed THEN 500 ELSE 200]
    /\ rolePc' = Idle
    /\ UNCHANGED <<observations, flask_appointments, chatVars, notifVars,
                   pcVars, hospVars, patVars, fhirVars, userVars,
                   lastNotifApi>>

\* get_hospital_metrics
get_hospital_metrics ==
    RoleAnswer("get_hospital_metrics", ADMIN, FALSE)

\* get_staff_activity
get_staff_activity ==
    RoleAnswer("get_staff_activity", ADMIN, FALSE)

\* get_provider_patients
get_provider_patients ==
    RoleAnswer("get_provider_patients", PROVIDER, FALSE)

\* get_provider_appointments: after the role check the filter reads
\* a['participant'] of every appointment, a KeyError (500) when one has none.
get_provider_appointments ==
    RoleAnswer("get_provider_appointments", PROVIDER,
               \E i \in DOMAIN flask_appointments :
                   ~flask_appointments[i].has_participant)

\* ------------------------------------------------------- specification

Init ==
    /\ groups = [g \in GroupNames |-> {}]
    /\ connRoom = [c \in ChatConns |-> NoRoom]
    /\ messages = <<>>
    /\ notifications = <<>>
    /\ has_unread_messages = [r \in ChatRooms |-> FALSE]
    /\ lastReceive = NoReceive
    /\ notifUser = [n \in NotifConns |-> NoUser]
    /\ wsFrames = [n \in NotifConns |-> {}]
    /\ lastNotify = [id |-> 0]
    /\ createPc = Idle
    /\ viewPc = Idle
    /\ markPc = Idle
    /\ hospitals = {}
    /\ subscriptions = {}
    /\ nextObjectId = 1
    /\ lastRequest = NoRequest
    /\ appointments = [a \in Appointments |-> "SCHEDULED"]
    /\ lastResponse = NoResponse
    /\ fhirPatients = {}
    /\ fhirObservations = {}
    /\ lastFhir = NoResponse
    /\ observations = mock_observations
    /\ lastFlask = [endpoint |-> "none"]
    /\ users = mock_users
    /\ registerPc = [t \in Threads |-> Idle]
    /\ lastNotifApi = NoApiResponse
    /\ flask_appointments = <<[has_participant |-> TRUE]>>
    /\ rolePc = Idle

Next ==
    \/ \E c \in ChatConns, r \in RoomIds : ChatConnect(c, r)
    \/ \E c \in ChatConns : ChatDisconnect(c)
    \/ \E c \in ChatConns, u \in UserIds, m \in Contents : ChatReceive(c, u, m)

Spec == Init /\ [][Next]_vars

\* The notification fan-out: NotificationConsumer and create_notification.
NextNotify ==
    \/ \E n \in NotifConns, u \in Users : NotifConnect(n, u)
    \/ \E n \in NotifConns : NotifDisconnect(n)
    \/ \E u \in Users, r \in ChatRooms : CreateNotification(u, r, 0)

SpecNotify == Init /\ [][NextNotify]_vars

\* Read-state tracking: the three writers of Message.is_read and
\* ChatRoom.has_unread_messages, one request of each in flight, their
\* store operations interleaved.
ReadUsers == {"u1", "u2"}
ReadRoom == "r1"

NextRead ==
    \/ ChatConnect("c1", ReadRoom)
    \/ \E u \in ReadUsers, m \in Contents : ChatReceive("c1", u, m)
    \/ \E u \in ReadUsers, m \in Contents : CreateInsert(u, ReadRoom, m)
    \/ CreateUpdateRoom
    \/ \E u \in ReadUsers : MessagesMarkRead(u, ReadRoom)
    \/ MessagesCount
    \/ MessagesClear
    \/ \E u \in ReadUsers : NotifConnect("n1", u)
    \/ \E nid \in 1..MaxNotifications : MarkGet("n1", nid)
    \/ MarkSaveNotification
    \/ MarkSaveMessage
    \/ MarkCount
    \/ MarkClear
    \/ MarkSend

SpecRead == Init /\ [][NextRead]_vars

\* The tenant store: every hospital operation, failed second writes included.
NextTenant ==
    \/ \E name \in Names, a \in Admins : HospitalPost(name, a, BASIC)
    \/ \E name \in Names, a \in Admins : HospitalPostSubscriptionFails(name, a)
    \/ \E name \in Names, a \in Admins : create_hospital(name, a, BASIC)
    \/ \E id \in 1..MaxHospitals, data \in PatchData(Names) :
          HospitalPatch(id, data)
    \/ \E id \in 1..MaxHospitals : HospitalDelete(id)
    \/ \E id \in 1..MaxHospitals : HospitalDeleteSubscriptionsFails(id)

SpecTenant == Init /\ [][NextTenant]_vars

\* The tenant store when every operation completes.
NextCompleted ==
    \/ \E name \in Names, a \in Admins : HospitalPost(name, a, BASIC)
    \/ \E name \in Names, a \in Admins : create_hospital(name, a, BASIC)
    \/ \E id \in 1..MaxHospitals, data \in PatchData(Names) :
          HospitalPatch(id, data)
    \/ \E id \in 1..MaxHospitals : HospitalDelete(id)

SpecCompleted == Init /\ [][NextCompleted]_vars

\* Requests to the hospital dashboard against a changing tenant store.
RequestNames == { <<"a">>, <<"A", "!">>, WWW }

NextRequest ==
    \/ \E name \in RequestNames, a \in Admins : HospitalPost(name, a, BASIC)
    \/ \E id \in 1..MaxHospitals, data \in [is_active : BOOLEAN] :
          HospitalPatch(id, data)
    \/ \E host \in Hosts, user \in Admins \cup {Anonymous} :
          DashboardRequest(host[1], host[2], user)

SpecRequest == Init /\ [][NextRequest]_vars

\* The patients endpoints: every user, every primary key.
Viewsets == {"patients", "medical_records", "appointments"}
Pks == Patients \cup MedicalRecords \cup Appointments \cup {UnknownPk}

NextPatients ==
    \/ \E v \in Viewsets, u \in Users : List(v, u)
    \/ \E v \in Viewsets, u \in Users, pk \in Pks : Retrieve(v, u, pk)
    \/ \E u \in Users, pk \in Pks : PatientMedicalRecords(u, pk)
    \/ \E u \in Users, pk \in Pks : PatientAppointments(u, pk)
    \/ \E u \in Users, pk \in Pks : AppointmentCancel(u, pk)

SpecPatients == Init /\ [][NextPatients]_vars

\* The FHIR endpoints: every user, every patient id.
FhirViewsets == {"fhir/patients", "fhir/observations"}
FhirRows ==
    {FHIRPatient(p) : p \in Patients}
    \cup {FHIRObservation(p, m, c) : p \in Patients, m \in RecordIds, c \in Codes}

NextFhir ==
    \/ \E v \in FhirViewsets, u \in Users : FhirList(v, u)
    \/ \E v \in FhirViewsets, u \in Users, row \in FhirRows : FhirRetrieve(v, u, row)
    \/ \E u \in Users, p \in Patients \cup {UnknownPk} : sync_with_fhir(u, p)
    \/ \E u \in Users, p \in Patients \cup {UnknownPk}, m \in RecordIds, c \in Codes :
          create_observation(u, p, m, c)

SpecFhir == Init /\ [][NextFhir]_vars

\* The Flask observation endpoints.
NextObservations ==
    \/ \E data \in PostedData : add_observation(data)
    \/ \E p \in PatientParams : GetObservations(p)
    \/ \E id \in ClientIds \cup {OBS_DASH \o format_03d(n) : n \in 1..MaxObservations} :
          GetObservation(id)

SpecObservations == Init /\ [][NextObservations]_vars

\* Registrations served by two threads, their steps interleaved.
NextRegister ==
    \/ \E t \in Threads, e \in Emails, r \in Roles : RegisterCheck(t, e, r)
    \/ \E t \in Threads, e \in Emails : RegisterConflict(t, e)
    \/ \E t \in Threads : RegisterStore(t)
    \/ \E t \in Threads : RegisterDone(t)

SpecRegister == Init /\ [][NextRegister]_vars

\* The role endpoints, with registrations and posted appointments between
\* and during the requests.  An access token carries the id of a user at
\* the time the token was made, here the ids of the first provider and admin
\* and those a registration may make; the store lives in memory and the
\* signing key does not, so a token may carry an id the store does not hold.
NextRoles ==
    \/ \E e \in Emails, r \in Roles : RegisterCheck("t1", e, r)
    \/ \E e \in Emails : RegisterConflict("t1", e)
    \/ RegisterStore("t1")
    \/ RegisterDone("t1")
    \/ \E b \in BOOLEAN : add_appointment(b)
    \/ \E identity \in {role \o <<"-">> \o format_03d(n) :
                           role \in {PROVIDER, ADMIN}, n \in {1, MaxUsers - 1}} :
          \E endpoint \in {"get_hospital_metrics", "get_staff_activity",
                           "get_provider_patients",
                           "get_provider_appointments"} :
             RoleIterate(endpoint, identity)
    \/ get_hospital_metrics
    \/ get_staff_activity
    \/ get_provider_patients
    \/ get_provider_appointments

SpecRoles == Init /\ [][NextRoles]_vars

\* New-message notifications: ChatConsumer.save_message and notify_message.
NextSender ==
    \/ \E r \in ChatRooms : ChatConnect("c1", r)
    \/ ChatDisconnect("c1")
    \/ \E u \in Users, m \in Contents : ChatReceive("c1", u, m)
    \/ \E mid \in 1..MaxMessages : NotifyMessage(mid)

SpecSender == Init /\ [][NextSender]_vars

\* The notification endpoints against a store that create_notification fills.
ApiUsers == {"u1", "u2"}

NextNotifApi ==
    \/ \E u \in ApiUsers : CreateNotification(u, "r1", 0)
    \/ \E u \in ApiUsers : NotificationList(u)
    \/ \E u \in ApiUsers : NotificationMarkAllRead(u)
    \/ \E u \in ApiUsers, pk \in 1..MaxNotifications : NotificationMarkRead(u, pk)
    \/ \E u \in ApiUsers : NotificationUnreadCount(u)

SpecNotifApi == Init /\ [][NextNotifApi]_vars

\* ChatRoomViewSet.messages as one call: its three store operations run
\* with no other writer in between; ChatConsumer.receive stores messages
\* between the calls.
NextMessages ==
    \/ viewPc = Idle /\ \E r \in ChatRooms : ChatConnect("c1", r)
    \/ viewPc = Idle /\ ChatDisconnect("c1")
    \/ viewPc = Idle /\ \E u \in Users, m \in Contents : ChatReceive("c1", u, m)
    \/ \E u \in Users, r \in ChatRooms : MessagesMarkRead(u, r)
    \/ MessagesCount
    \/ MessagesClear

SpecMessages == Init /\ [][NextMessages]_vars

\* ------------------------------------------------------- claims

\* The connections that have connected to room r and not yet disconnected.
Connected(r) == {c \in ChatConns : connRoom[c] = r}

\* A step in which ChatConsumer.receive ran.
ReceiveStep == lastReceive' # lastReceive

NotificationsOf(mid) ==
    {i \in DOMAIN notifications : notifications[i].message = mid}

C3_NotificationForwarded ==
    lastNotify.id # 0 =>
        /\ lastNotify.id \in DOMAIN notifications
        /\ notifications[lastNotify.id].recipient = lastNotify.recipient
        /\ lastNotify.sends = 1
        /\ \A n \in lastNotify.to :
              <<"new_notification", lastNotify.id>> \in wsFrames[n]

\* C4 as stated: in a run where only MessageViewSet.create,
\* ChatRoomViewSet.messages and mark_notification_read have stored anything
\* (no ChatConsumer.receive yet), once none of them is in flight, a room
\* with an unread message has has_unread_messages = true.
C4_ReadStateConsistent ==
    (lastReceive = NoReceive /\ createPc = Idle /\ viewPc = Idle /\ markPc = Idle) =>
        \A r \in ChatRooms : unread_count(r) > 0 => has_unread_messages[r]

\* A step in which a dashboard request was served.
RequestStep == lastRequest' # lastRequest

\* C5 as stated, for the hosts 'localhost' and '<label>.localhost': the
\* bare host and 'www' resolve to None; another label resolves to the
\* active hospital with that subdomain if there is one, to None otherwise.
C5_TenantFromHostname ==
    [][RequestStep =>
          LET q == lastRequest'
              sub == q.labels[1]
          IN /\ q.labels = <<LOCALHOST>> => (~q.raised /\ q.hospital = None)
             /\ (Len(q.labels) = 2 /\ q.labels[2] = LOCALHOST) =>
                   IF sub # WWW /\ active_hospitals(sub) # {}
                   THEN /\ ~q.raised
                        /\ q.hospital \in {h.id : h \in active_hospitals(sub)}
                   ELSE ~q.raised /\ q.hospital = None]_vars

\* C6 as stated: no two stored hospitals have the same subdomain.
C6_SubdomainsUnique ==
    \A h1, h2 \in hospitals : h1.subdomain = h2.subdomain => h1 = h2

\* The subscriptions that refer to hospital h.
SubscriptionsOf(h) == {sub \in subscriptions : sub.hospital_id = h.id}

\* C7 as stated: every stored hospital has exactly one subscription and
\* every stored subscription refers to a stored hospital.
C7_OneSubscriptionEach ==
    /\ \A h \in hospitals : Cardinality(SubscriptionsOf(h)) = 1
    /\ \A sub \in subscriptions : \E h \in hospitals : h.id = sub.hospital_id

C9_DashboardGated ==
    [][RequestStep =>
          LET q == lastRequest'
              allowed ==
                 /\ q.user # Anonymous
                 /\ Len(q.labels) >= 2
                 /\ q.labels[Len(q.labels)] = LOCALHOST
                 /\ \E h \in hospitals :
                       /\ h.is_active
                       /\ h.subdomain = q.labels[1]
                       /\ h.admin_email = q.user
                       /\ h.id = q.hospital
          IN IF allowed THEN q.status \in {200, 500}
             ELSE q.status \in {403, 404, 500}]_vars

\* C9 witness: the admin of one hospital got its dashboard while the store
\* holds another active hospital with another admin.
C9_Witness ==
    /\ lastRequest.status = 200
    /\ \E h \in hospitals :
          /\ h.id # lastRequest.hospital
          /\ h.is_active
          /\ h.admin_email # lastRequest.user

\* The user a patient, medical record or appointment belongs to.
Owner(row) ==
    IF row \in Patients THEN Patient_user(row)
    ELSE IF row \in MedicalRecords THEN Patient_user(MedicalRecord_patient(row))
    ELSE Patient_user(Appointment_patient(row))

\* The rows of the table an action answers from.
Table(action) ==
    IF action \in {<<"patients", "list">>, <<"patients", "retrieve">>}
    THEN Patients
    ELSE IF action[1] = "medical_records" \/ action[2] = "medical_records"
    THEN MedicalRecords
    ELSE Appointments

\* C10: every row an action returns to or modifies for a non-staff user U
\* belongs to the patient whose user is U; a staff user's list holds every
\* row of the table.
C10_OwnRecordsOnly ==
    [][(lastResponse' # lastResponse \/ appointments' # appointments) =>
          LET q == lastResponse'
              modified == {a \in Appointments : appointments'[a] # appointments[a]}
          IN /\ q.rows \subseteq Table(q.action)
             /\ ~is_staff(q.user) =>
                   \A row \in q.rows \cup modified : Owner(row) = q.user
             /\ (is_staff(q.user) /\ q.action[2] = "list") =>
                   q.rows = Table(q.action)
      ]_vars

\* C10 witness: a non-staff user cancelled an appointment of their own
\* while an appointment of another patient is still scheduled.
C10_Witness ==
    /\ lastResponse.action = <<"appointments", "cancel">>
    /\ ~is_staff(lastResponse.user)
    /\ lastResponse.rows # {}
    /\ \A a \in lastResponse.rows : appointments[a] = "CANCELLED"
    /\ \E a \in Appointments :
          Owner(a) # lastResponse.user /\ appointments[a] = "SCHEDULED"

\* C11 as stated: every FHIRPatient and FHIRObservation a FHIR action
\* returns to, creates or updates for a non-staff user U belongs to the
\* patient whose user is U.
C11_OwnFhirDataOnly ==
    [][lastFhir' # lastFhir =>
          (~is_staff(lastFhir'.user) =>
              \A row \in lastFhir'.rows \cup lastFhir'.written :
                  Patient_user(row.patient) = lastFhir'.user)]_vars

\* C12 as stated: GET /fhir/Observation with patient = P, P a patient id,
\* answers with exactly the stored observations whose subject reference is
\* 'Patient/P'; without the parameter it answers with all stored
\* observations.
C12_FilterByPatient ==
    (lastFlask.endpoint = "get_observations" /\ lastFlask.patient # <<>>) =>
        /\ lastFlask.status = 200
        /\ lastFlask.body =
              IF lastFlask.patient = NoParam
              THEN DOMAIN observations
              ELSE {i \in DOMAIN observations :
                       /\ observations[i].has_subject
                       /\ observations[i].reference =
                             PATIENT_SLASH \o lastFlask.patient}

\* C20 as stated: every stored observation is the one GET
\* /fhir/Observation/<its id> returns, i.e. no two stored observations
\* share an id.
C20_ObservationIdsUnique ==
    \A i \in DOMAIN observations : get_observation(observations[i].id) = i

\* C19 as stated: no two users of the Flask user store have the same id,
\* whatever the roles and however concurrent registrations interleave.
C19_UserIdsUnique ==
    \A e1, e2 \in DOMAIN users : users[e1].id = users[e2].id => e1 = e2

C14_SenderNotNotified ==
    \A i \in DOMAIN notifications :
        (notifications[i].message # 0
           /\ notifications[i].notification_type \in {NEW_MESSAGE, "new_message"})
        => notifications[i].recipient # messages[notifications[i].message].sender

\* C15 as stated: NotificationConsumer.receive sends the notification_update
\* event for notification N to group notifications_U only if N is stored
\* with recipient U and is_read = true; a mark_read of a notification
\* that does not exist, belongs to another user or was already read sends
\* nothing.
C15_UpdateOnlyForReadNotification ==
    [][(markPc.op = "send" /\ markPc' = Idle) =>
          /\ markPc.nid \in DOMAIN notifications
          /\ notifications[markPc.nid].recipient = markPc.user_id
          /\ notifications[markPc.nid].is_read]_vars

\* C16 as stated: a ChatNotificationViewSet request of user U lists and
\* counts only notifications whose recipient is U and changes the is_read
\* value of no notification addressed to another user.
C16_OwnNotificationsOnly ==
    [][LET q == lastNotifApi'
       IN /\ \A i \in DOMAIN notifications :
                notifications'[i].is_read # notifications[i].is_read
                   => notifications[i].recipient = q.user
          /\ (q # lastNotifApi /\ q.action = "list") =>
                \A i \in q.body : notifications[i].recipient = q.user
      ]_vars

\* C17: after mark_all_read by user U no notification of U is unread and a
\* second mark_all_read would change nothing; unread_count for U answers
\* the number of stored notifications with recipient U and is_read = false,
\* which is 0 right after a mark_all_read of U when no notification was
\* created in between.
C17_MarkAllReadThenZero ==
    [][lastNotifApi' # lastNotifApi =>
          LET q == lastNotifApi'
              unread(rows) == {i \in DOMAIN rows :
                                  rows[i].recipient = q.user /\ ~rows[i].is_read}
          IN /\ q.action = "mark_all_read" =>
                   /\ unread(notifications') = {}
                   /\ mark_all_read(notifications', q.user) = notifications'
                   /\ \A i \in DOMAIN notifications :
                         notifications[i].recipient # q.user
                            => notifications'[i] = notifications[i]
             /\ q.action = "unread_count" =>
                   /\ q.body = Cardinality(unread(notifications))
                   /\ q.prev = <<"mark_all_read", q.user, Len(notifications)>>
                         => q.body = 0
      ]_vars

\* C17 witness: unread_count answered 0 to a user right after that user's
\* mark_all_read; the user has a notification, now read, and another user
\* still has an unread one.
C17_Witness ==
    /\ lastNotifApi.action = "unread_count"
    /\ lastNotifApi.prev = <<"mark_all_read", lastNotifApi.user, Len(notifications)>>
    /\ lastNotifApi.body = 0
    /\ \E i \in DOMAIN notifications :
          notifications[i].recipient = lastNotifApi.user /\ notifications[i].is_read
    /\ \E i \in DOMAIN notifications :
          notifications[i].recipient # lastNotifApi.user /\ ~notifications[i].is_read

\* C18 as stated: a ChatRoomViewSet.messages call of user U for room R
\* marks as read exactly the unread messages of R that U did not send,
\* leaves every other message as it is, and changes has_unread_messages
\* only for R, to false, and only when R has no unread message left.
C18_MessagesMarksOthersRead ==
    [][/\ (viewPc = Idle /\ viewPc' # Idle) =>
             /\ DOMAIN messages' = DOMAIN messages
             /\ \A i \in DOMAIN messages :
                   IF /\ messages[i].chat_room = viewPc'.room
                      /\ messages[i].sender # viewPc'.user_id
                      /\ ~messages[i].is_read
                   THEN messages'[i] = [messages[i] EXCEPT !.is_read = TRUE]
                   ELSE messages'[i] = messages[i]
             /\ has_unread_messages' = has_unread_messages
       /\ (viewPc # Idle /\ viewPc' = Idle) =>
             /\ messages' = messages
             /\ \A r \in ChatRooms :
                   has_unread_messages'[r] # has_unread_messages[r] =>
                      /\ r = viewPc.room
                      /\ ~has_unread_messages'[r]
                      /\ \A i \in DOMAIN messages :
                            messages[i].chat_room = r => messages[i].is_read
      ]_vars


\* C21: a role endpoint answers by role only.  /api/admin/metrics and
\* /api/admin/staff-activity return data (200) only when the token identity
\* is the id of a stored user whose role is 'admin', /api/provider/patients
\* and /api/provider/appointments only when that role is 'provider'; every
\* other caller with a token, one whose identity the store does not hold
\* included, gets 403.
C21_RoleGated ==
    [][(rolePc # Idle /\ rolePc' = Idle) =>
          LET required ==
                  IF rolePc.op \in {"get_hospital_metrics",
                                    "get_staff_activity"}
                  THEN ADMIN ELSE PROVIDER
              resolves ==
                  \E email \in DOMAIN users :
                      /\ users[email].id = rolePc.identity
                      /\ users[email].role = required
          IN /\ lastFlask'.endpoint = rolePc.op
             /\ lastFlask'.identity = rolePc.identity
             /\ lastFlask'.status = 200 => resolves
             /\ ~resolves => lastFlask'.status = 403
      ]_vars

====
